---- MODULE Spec2Model ----
(***************************************************************************)
(* MeritBoard (src/main.py): a FastAPI job board that authenticates with   *)
(* the ConsentKeys OIDC provider, keeps the identity in the session, and   *)
(* reads and writes two Supabase tables.                                    *)
(*                                                                         *)
(* Text values that the program takes apart (the redirect target) are      *)
(* sequences of one-character strings; all other text values are atoms.    *)
(***************************************************************************)
EXTENDS Integers, Sequences, FiniteSets, TLC

VARIABLES
    settings,         \* the Settings snapshot (main.py:18-69)
    route_path,       \* path the callback handler is bound to (main.py:247)
    oauth_clients,    \* names registered on `oauth` (main.py:81)
    supabase_client,  \* the module-level handle (main.py:82)
    session,          \* request.session of every browser session
    inflight,         \* awaiting handler of every browser session
    store,            \* rows of the two Supabase tables
    resp,             \* the response produced last
    last              \* per session: the route of its latest response, and
                      \* whether its response before that was the logout's

vars == <<settings, route_path, oauth_clients, supabase_client, session,
          inflight, store, resp, last>>

None == "None"

----------------------------------------------------------------------------
(* Text helpers: str.startswith, str.find, `in`, slicing.                   *)

StartsWith(s, p) ==
    /\ Len(s) >= Len(p)
    /\ SubSeq(s, 1, Len(p)) = p

\* str.find(c, start): the first index >= start holding c, 0 when there is none
FindFrom(s, c, start) ==
    IF \E i \in start..Len(s) : s[i] = c
    THEN CHOOSE i \in start..Len(s) :
            /\ s[i] = c
            /\ \A j \in start..(i - 1) : s[j] # c
    ELSE 0

Find(s, c) == FindFrom(s, c, 1)

\* str.rfind(c): the last index holding c, 0 when there is none
RFind(s, c) ==
    IF \E i \in 1..Len(s) : s[i] = c
    THEN CHOOSE i \in 1..Len(s) :
            /\ s[i] = c
            /\ \A j \in (i + 1)..Len(s) : s[j] # c
    ELSE 0

Contains(s, c) == \E i \in 1..Len(s) : s[i] = c

Before(s, i) == SubSeq(s, 1, i - 1)

After(s, i) == SubSeq(s, i + 1, Len(s))

HTTP == <<"h", "t", "t", "p">>

HTTPS == <<"h", "t", "t", "p", "s">>

SLASH == <<"/">>

\* "/auth/callback", letter by letter
DefaultCallback ==
    <<"/", "a", "u", "t", "h", "/", "c", "a", "l", "l", "b", "a", "c", "k">>

----------------------------------------------------------------------------
(* urllib.parse.urlparse, as main.py:54 calls it.  The characters of the   *)
(* modelled inputs contain no whitespace, control characters, brackets or  *)
(* upper-case letters, so stripping, the IPv6 check and lower-casing of    *)
(* the scheme have nothing to do.                                           *)

Letters == {"a", "b", "c", "h", "k", "l", "p", "s", "t", "u"}

SchemeChars == Letters \cup {"+", "-", "."}

\* schemes of urllib's uses_params that the modelled characters can spell
UsesParams == {<<>>, HTTP, HTTPS}

\* url[:i] is a scheme: i > 0, first character a letter, all scheme characters
HasScheme(url) ==
    LET i == Find(url, ":") IN
    /\ i > 1
    /\ url[1] \in Letters
    /\ \A j \in 1..(i - 1) : url[j] \in SchemeChars

\* _splitnetloc(url, 2): the earliest of "/", "?", "#" after the two slashes
NetlocEnd(url) ==
    LET ds == {FindFrom(url, c, 3) : c \in {"/", "?", "#"}} \ {0} IN
    IF ds = {} THEN Len(url) + 1
    ELSE CHOOSE d \in ds : \A e \in ds : d <= e

\* _splitparams(url): cut at the first ";" of the last path segment
SplitParamsPath(url) ==
    LET i == IF Contains(url, "/")
             THEN FindFrom(url, ";", RFind(url, "/"))
             ELSE Find(url, ";") IN
    IF i = 0 THEN url ELSE Before(url, i)

urlparse(url) ==
    LET i      == Find(url, ":")
        scheme == IF HasScheme(url) THEN Before(url, i) ELSE <<>>
        u1     == IF HasScheme(url) THEN After(url, i) ELSE url
        hasNet == StartsWith(u1, <<"/", "/">>)
        netloc == IF hasNet THEN SubSeq(u1, 3, NetlocEnd(u1) - 1) ELSE <<>>
        u2     == IF hasNet THEN SubSeq(u1, NetlocEnd(u1), Len(u1)) ELSE u1
        u3     == IF Contains(u2, "#") THEN Before(u2, Find(u2, "#")) ELSE u2
        u4     == IF Contains(u3, "?") THEN Before(u3, Find(u3, "?")) ELSE u3
        path   == IF scheme \in UsesParams /\ Contains(u4, ";")
                  THEN SplitParamsPath(u4) ELSE u4
    IN [scheme |-> scheme, netloc |-> netloc, path |-> path]

----------------------------------------------------------------------------
(* Settings, main.py:18-66                                                  *)

\* redirect_route_path without the default for an empty path
redirect_route_path_NoDefault(s) ==
    IF StartsWith(s.consentkeys_redirect_path, HTTP)
    THEN urlparse(s.consentkeys_redirect_path).path
    ELSE IF ~StartsWith(s.consentkeys_redirect_path, SLASH)
         THEN SLASH \o s.consentkeys_redirect_path
         ELSE s.consentkeys_redirect_path

redirect_route_path(s) ==
    IF StartsWith(s.consentkeys_redirect_path, HTTP)
    THEN LET parsed == urlparse(s.consentkeys_redirect_path) IN
         IF parsed.path # <<>> THEN parsed.path ELSE DefaultCallback
    ELSE IF ~StartsWith(s.consentkeys_redirect_path, SLASH)
         THEN SLASH \o s.consentkeys_redirect_path
         ELSE s.consentkeys_redirect_path

redirect_uri(s) ==
    IF StartsWith(s.consentkeys_redirect_path, HTTP)
    THEN s.consentkeys_redirect_path
    ELSE s.app_host \o s.consentkeys_redirect_path

\* the credentials test with `and` in place of `or`
CredentialsMissing_BothAbsent(s) ==
    /\ s.consentkeys_client_id = None
    /\ s.consentkeys_client_secret = None

\* `not self.consentkeys_client_id or not self.consentkeys_client_secret`
CredentialsMissing(s) ==
    \/ s.consentkeys_client_id = None
    \/ s.consentkeys_client_secret = None

\* `not settings.supabase_url or not settings.supabase_service_role_key`
SupabaseMissing(s) ==
    \/ s.supabase_url = None
    \/ s.supabase_service_role_key = None

\* "https://meritboard.vercel.app"
DefaultAppHost ==
    <<"h", "t", "t", "p", "s", ":", "/", "/", "m", "e", "r", "i", "t", "b",
      "o", "a", "r", "d", ".", "v", "e", "r", "c", "e", "l", ".", "a", "p",
      "p">>

\* "https://meritboard.vercel.app/auth/callback"
DefaultRedirectPath == DefaultAppHost \o DefaultCallback

JobsTable == "jobs"

CandidatesTable == "candidates"

Tables == {JobsTable, CandidatesTable}

\* the environments the process can be started in
Environments ==
    [consentkeys_client_id       : {None, "client-id"},
     consentkeys_client_secret   : {None, "client-secret"},
     consentkeys_redirect_path   : {DefaultRedirectPath},
     app_host                    : {DefaultAppHost},
     supabase_url                : {None, "https://db"},
     supabase_service_role_key   : {None, "service-key"}]

----------------------------------------------------------------------------
(* Optional values are tuples of length 0 (None) or 1.                      *)

Nothing == <<>>

Some(x) == <<x>>

\* dict.get(key) on a mapping whose absent keys read as None
Get(d, key) == IF key \in DOMAIN d THEN d[key] ELSE None

\* request.session.get(key)
SessionGet(sess, key) == IF key \in DOMAIN sess THEN Some(sess[key]) ELSE Nothing

\* request.session[key] = value
SessionSet(sess, key, value) ==
    [k \in DOMAIN sess \cup {key} |-> IF k = key THEN value ELSE sess[k]]

\* session.pop(key, None)
SessionDel(sess, key) == [k \in DOMAIN sess \ {key} |-> sess[k]]

\* request.session.clear()
EmptySession == [k \in {} |-> None]

----------------------------------------------------------------------------
(* The record schemas, main.py:116-131.  A row and a model instance are    *)
(* both mappings from field names to values.                               *)

JobPosting == "JobPosting"

CandidateProfile == "CandidateProfile"

Fields(model) ==
    IF model = JobPosting
    THEN {"id", "employer", "title", "region", "description",
          "incentive_eligible"}
    ELSE {"id", "region", "skills", "experience_years", "desired_roles",
          "portfolio_link"}

\* the fields without a default
Required(model) ==
    IF model = JobPosting
    THEN {"employer", "title", "region", "description"}
    ELSE {"region", "skills", "experience_years", "desired_roles"}

\* validation that does not enforce ge=0 on experience_years
Validates_Unbounded(model, row) == Required(model) \subseteq DOMAIN row

\* pydantic accepts the keyword arguments: required fields given, ge=0 kept
Validates(model, row) ==
    /\ Required(model) \subseteq DOMAIN row
    /\ model = CandidateProfile => row["experience_years"] >= 0

\* the default of a field that has one; `fresh` is what secrets.token_hex gives
FieldDefault(field, fresh) ==
    CASE field = "id"                 -> fresh
      [] field = "incentive_eligible" -> FALSE
      [] field = "portfolio_link"     -> None

\* model(**row) for a row that validates: unknown keys dropped, defaults filled
Construct(model, row, fresh) ==
    [f \in Fields(model) |->
        IF f \in DOMAIN row THEN row[f] ELSE FieldDefault(f, fresh)]

\* record.dict() that leaves out the optional link
Dict_WithoutLink(record) ==
    [f \in DOMAIN record \ {"portfolio_link"} |-> record[f]]

\* record.dict()
Dict(record) == [f \in DOMAIN record |-> record[f]]

\* what secrets.token_hex(8) can return
Tokens == {"tok1", "tok2"}

----------------------------------------------------------------------------
(* Module state: ensure_consentkeys_client, ensure_supabase_client.        *)

ClientName == "consentkeys"

ClientHandle == "Client"

\* outcome of one call on the Supabase client
StoreOutcomes == {"ok", "error", "unreachable"}

\* the outcomes a call can have; none is drawn when no call is made
Outcomes == IF SupabaseMissing(settings) THEN {"ok"} ELSE StoreOutcomes

\* the tokens the default factory of `id` can give for these payloads; none is
\* drawn when every payload carries its id
Drawn(payloads) ==
    IF \A i \in 1..Len(payloads) : "id" \in DOMAIN payloads[i]
    THEN {CHOOSE t \in Tokens : TRUE} ELSE Tokens

\* ensure_supabase_client() that returns a client without keeping it in the
\* module global
EnsuredClient_NotKept(client) == client

\* ensure_supabase_client(): the handle the call leaves in the module global
EnsuredClient(client) == IF client = None THEN ClientHandle ELSE client

\* the external calls ensure_supabase_client() makes
EnsureCalls(client) ==
    IF client = None THEN {<<"create_client", "supabase", "ok">>} ELSE {}

\* [model(**row) for row in response.data or []]
ParseRows(model, rows, fresh) ==
    [i \in 1..Len(rows) |-> Construct(model, rows[i], fresh)]

\* fetch_records that does not look at response.error
fetch_records_ErrorIgnored(client, table, model, rows, outcome, fresh) ==
    IF SupabaseMissing(settings)
    THEN [status |-> 500, error |-> "configuration", data |-> <<>>,
          client |-> client, calls |-> {}]
    ELSE LET c     == EnsuredClient(client)
             calls == EnsureCalls(client) \cup {<<"select", table, outcome>>} IN
         CASE outcome = "unreachable" ->
                [status |-> 500, error |-> "unreachable", data |-> <<>>,
                 client |-> c, calls |-> calls]
           [] outcome = "error" ->
                [status |-> 200, error |-> "", data |-> <<>>,
                 client |-> c, calls |-> calls]
           [] outcome = "ok" ->
                IF \A i \in 1..Len(rows) : Validates(model, rows[i])
                THEN [status |-> 200, error |-> "",
                      data |-> ParseRows(model, rows, fresh),
                      client |-> c, calls |-> calls]
                ELSE [status |-> 500, error |-> "validation", data |-> <<>>,
                      client |-> c, calls |-> calls]

\* fetch_records(table, model) run with module handle `client` against the
\* table contents `rows`, the select ending in `outcome`
fetch_records(client, table, model, rows, outcome, fresh) ==
    IF SupabaseMissing(settings)
    THEN [status |-> 500, error |-> "configuration", data |-> <<>>,
          client |-> client, calls |-> {}]
    ELSE LET c     == EnsuredClient(client)
             calls == EnsureCalls(client) \cup {<<"select", table, outcome>>} IN
         CASE outcome = "unreachable" ->
                [status |-> 500, error |-> "unreachable", data |-> <<>>,
                 client |-> c, calls |-> calls]
           [] outcome = "error" ->
                [status |-> 500, error |-> "supabase", data |-> <<>>,
                 client |-> c, calls |-> calls]
           [] outcome = "ok" ->
                IF \A i \in 1..Len(rows) : Validates(model, rows[i])
                THEN [status |-> 200, error |-> "",
                      data |-> ParseRows(model, rows, fresh),
                      client |-> c, calls |-> calls]
                ELSE [status |-> 500, error |-> "validation", data |-> <<>>,
                      client |-> c, calls |-> calls]

\* how the store treats the id of an inserted row
StoreAssigns == {"keep", "own"}

\* the id a table default assigns
StoreId == "db-id"

\* the row the store keeps for an inserted payload
StoredRow(payload, assign) ==
    IF assign = "keep" THEN payload
    ELSE [f \in DOMAIN payload \cup {"created_at"} |->
            CASE f = "id"         -> StoreId
              [] f = "created_at" -> "2024-01-01"
              [] OTHER            -> payload[f]]

\* the payload insert_record parses without looking at response.data
InsertPayload_Submitted(record, row, returning) == Dict(record)

\* response.data[0] if response.data else record.dict(), main.py:156
InsertPayload(record, row, returning) ==
    IF returning THEN row ELSE Dict(record)

\* what a successful insert found in response.data
DataCall(table, returning) ==
    <<"response.data", table, IF returning THEN "row" ELSE "empty">>

\* insert_record that answers a reported error with the submitted record
insert_record_Echo(client, table, record, model, rows, outcome, assign, returning, fresh) ==
    IF SupabaseMissing(settings)
    THEN [status |-> 500, error |-> "configuration", item |-> Nothing,
          client |-> client, calls |-> {}, rows |-> rows]
    ELSE LET c     == EnsuredClient(client)
             calls == EnsureCalls(client) \cup {<<"insert", table, outcome>>}
             row   == StoredRow(Dict(record), assign)
             payload == InsertPayload(record, row, returning)
             answered == calls \cup {DataCall(table, returning)} IN
         CASE outcome = "unreachable" ->
                [status |-> 500, error |-> "unreachable", item |-> Nothing,
                 client |-> c, calls |-> calls, rows |-> rows]
           [] outcome = "error" ->
                [status |-> 201, error |-> "",
                 item |-> Some(Construct(model, Dict(record), fresh)),
                 client |-> c, calls |-> calls, rows |-> rows]
           [] outcome = "ok" ->
                IF Validates(model, payload)
                THEN [status |-> 201, error |-> "",
                      item |-> Some(Construct(model, payload, fresh)),
                      client |-> c, calls |-> answered,
                      rows |-> Append(rows, row)]
                ELSE [status |-> 500, error |-> "validation",
                      item |-> Nothing, client |-> c, calls |-> answered,
                      rows |-> Append(rows, row)]

\* insert_record(table, record, model) run with module handle `client` against
\* the table contents `rows`; `returning` says whether response.data has rows
insert_record(client, table, record, model, rows, outcome, assign, returning, fresh) ==
    IF SupabaseMissing(settings)
    THEN [status |-> 500, error |-> "configuration", item |-> Nothing,
          client |-> client, calls |-> {}, rows |-> rows]
    ELSE LET c     == EnsuredClient(client)
             calls == EnsureCalls(client) \cup {<<"insert", table, outcome>>}
             row   == StoredRow(Dict(record), assign)
             payload == InsertPayload(record, row, returning)
             answered == calls \cup {DataCall(table, returning)} IN
         CASE outcome = "unreachable" ->
                [status |-> 500, error |-> "unreachable", item |-> Nothing,
                 client |-> c, calls |-> calls, rows |-> rows]
           [] outcome = "error" ->
                [status |-> 500, error |-> "supabase", item |-> Nothing,
                 client |-> c, calls |-> calls, rows |-> rows]
           [] outcome = "ok" ->
                IF Validates(model, payload)
                THEN [status |-> 201, error |-> "",
                      item |-> Some(Construct(model, payload, fresh)),
                      client |-> c, calls |-> answered,
                      rows |-> Append(rows, row)]
                ELSE [status |-> 500, error |-> "validation",
                      item |-> Nothing, client |-> c, calls |-> answered,
                      rows |-> Append(rows, row)]

----------------------------------------------------------------------------
(* The demonstration fixtures, main.py:160-194.  Their ids come from the   *)
(* default factory, so every call draws new ones.                          *)

demo_jobs(id1, id2) ==
    << Construct(JobPosting,
           [employer |-> "Pacific Inclusive Partners",
            title |-> "Data Analyst",
            region |-> "Lower Mainland",
            description |-> "Advance evidence-based hiring programs",
            incentive_eligible |-> TRUE], id1),
       Construct(JobPosting,
           [employer |-> "Northern Tech Co-op",
            title |-> "Full Stack Developer",
            region |-> "Cariboo",
            description |-> "Ship accessible services",
            incentive_eligible |-> FALSE], id2) >>

demo_candidates(id1, id2) ==
    << Construct(CandidateProfile,
           [region |-> "Vancouver Island",
            skills |-> <<"React", "TypeScript", "Figma">>,
            experience_years |-> 3,
            desired_roles |-> <<"Frontend Developer", "Product Designer">>,
            portfolio_link |-> "https://example.com/portfolio"], id1),
       Construct(CandidateProfile,
           [region |-> "Kootenays",
            skills |-> <<"Python", "FastAPI", "Supabase">>,
            experience_years |-> 5,
            desired_roles |-> <<"Backend Developer", "Data Engineer">>],
           id2) >>

----------------------------------------------------------------------------
(* The environment of the process: browsers, the provider, the store.      *)

Sessions == {"s1", "s2"}

\* capacity of a table
MaxRows == 2

\* claims the provider can return about a user
ClaimSets ==
    { [sub |-> "alice", email |-> "alice@example.com", name |-> "Alice"],
      [sub |-> "bob", name |-> "Bob"] }

EmptyClaims == [k \in {} |-> None]

\* token responses of a successful code exchange
ProviderTokens ==
    {[access_token |-> "at"]}
        \cup {[access_token |-> "at", userinfo |-> c] :
                c \in ClaimSets \cup {EmptyClaims}}

\* key under which authorize_redirect keeps the state of a started login
StateKey == "_state_consentkeys"

\* job postings a client can submit
JobInputs ==
    [id : Tokens, employer : {"Acme"}, title : {"Welder"},
     region : {"Cariboo"}, description : {"Night shift"},
     incentive_eligible : {TRUE}]

\* request bodies of POST /api/candidates, before validation
CandidateBodies ==
    [id : Tokens, region : {"Kootenays"}, skills : {<<"Python">>},
     experience_years : {-1, 4}, desired_roles : {<<"Developer">>},
     portfolio_link : {"https://me.example"}]

\* rows that were in the tables before the process started
LegacyJob ==
    [employer |-> "Old Mill", title |-> "Sawyer",
     region |-> "Cariboo", description |-> "Day shift",
     created_at |-> "2023-01-01"]

NegativeCandidate ==
    [id |-> StoreId, region |-> "Kootenays", skills |-> <<"Python">>,
     experience_years |-> -1, desired_roles |-> <<"Developer">>,
     portfolio_link |-> None]

\* a job row that lacks the required title
UntitledJob ==
    [id |-> StoreId, employer |-> "Old Mill", region |-> "Cariboo",
     description |-> "Day shift", incentive_eligible |-> FALSE]

SeedStores ==
    [jobs : {<<>>, <<LegacyJob>>, <<LegacyJob, UntitledJob>>},
     candidates : {<<>>, <<NegativeCandidate>>}]

NoRequest == [route |-> "none", after_logout |-> FALSE]

NoResponse ==
    [route |-> "none", sid |-> "none", request |-> <<>>, status |-> 0,
     body |-> <<>>, calls |-> {}]

\* a request of session s to a route, its response, and the external calls
\* the handler made with their outcomes
Response(route, s, request, status, body, calls) ==
    [route |-> route, sid |-> s, request |-> request, status |-> status,
     body |-> body, calls |-> calls]

\* the response leaves the handler of session s
Respond(route, s, request, status, body, calls) ==
    /\ resp' = Response(route, s, request, status, body, calls)
    /\ last' = [last EXCEPT ![s] = [route |-> route,
                                    after_logout |-> @.route = "logout"]]

Init ==
    /\ settings \in Environments
    /\ route_path = Some(redirect_route_path(settings))
    /\ oauth_clients = {}
    /\ supabase_client = None
    /\ session = [s \in Sessions |-> EmptySession]
    /\ inflight = [s \in Sessions |-> "idle"]
    /\ store \in SeedStores
    /\ resp = NoResponse
    /\ last = [s \in Sessions |-> NoRequest]

----------------------------------------------------------------------------
(* The routes, main.py:197-291.                                            *)

\* get_current_user that returns the session instead of its user entry
get_current_user_WholeSession(s) ==
    IF DOMAIN session[s] # {} THEN Some(session[s]) ELSE Nothing

get_current_user(s) == SessionGet(session[s], "user")

health(s) ==
    /\ inflight[s] = "idle"
    /\ Respond("health", s, <<>>, 200,
               [status |-> "ok",
                consentkeys_configured |-> ~CredentialsMissing(settings),
                supabase_configured |-> ~SupabaseMissing(settings)], {})
    /\ UNCHANGED <<settings, route_path, oauth_clients, supabase_client,
                   session, inflight, store>>

\* templates.TemplateResponse("index.html", ...), main.py:224-232
render_index(s, jobs, candidates, client, calls) ==
    /\ supabase_client' = client
    /\ Respond("read_root", s, <<>>, 200,
               [user |-> get_current_user(s), jobs |-> jobs,
                candidates |-> candidates], calls)

\* read_root without the except branch: the failure is surfaced
root_fallback_Surfaced(s, client, calls) ==
    /\ supabase_client' = client
    /\ Respond("read_root", s, <<>>, 500, <<"Internal Server Error">>, calls)

\* the except branch of read_root, main.py:219-222
root_fallback(s, client, calls) ==
    \E i1, i2, i3, i4 \in Tokens :
        render_index(s, demo_jobs(i1, i2), demo_candidates(i3, i4), client,
                     calls)

\* read_root that falls back list by list: the jobs that were fetched are
\* kept when the candidates fetch fails
read_root_KeepJobs(s) ==
    /\ inflight[s] = "idle"
    /\ \E o1 \in Outcomes, f1 \in Drawn(store[JobsTable]) :
        LET jobs == fetch_records(supabase_client, JobsTable, JobPosting,
                                  store[JobsTable], o1, f1) IN
        IF jobs.status # 200
        THEN root_fallback(s, jobs.client, jobs.calls)
        ELSE \E o2 \in Outcomes, f2 \in Drawn(store[CandidatesTable]) :
            LET candidates == fetch_records(jobs.client, CandidatesTable,
                                            CandidateProfile,
                                            store[CandidatesTable], o2, f2)
                calls == jobs.calls \cup candidates.calls IN
            IF candidates.status # 200
            THEN \E i3, i4 \in Tokens :
                    render_index(s, jobs.data, demo_candidates(i3, i4),
                                 candidates.client, calls)
            ELSE render_index(s, jobs.data, candidates.data,
                              candidates.client, calls)
    /\ UNCHANGED <<settings, route_path, oauth_clients, session, inflight,
                   store>>

read_root(s) ==
    /\ inflight[s] = "idle"
    /\ \E o1 \in Outcomes, f1 \in Drawn(store[JobsTable]) :
        LET jobs == fetch_records(supabase_client, JobsTable, JobPosting,
                                  store[JobsTable], o1, f1) IN
        IF jobs.status # 200
        THEN root_fallback(s, jobs.client, jobs.calls)
        ELSE \E o2 \in Outcomes, f2 \in Drawn(store[CandidatesTable]) :
            LET candidates == fetch_records(jobs.client, CandidatesTable,
                                            CandidateProfile,
                                            store[CandidatesTable], o2, f2)
                calls == jobs.calls \cup candidates.calls IN
            IF candidates.status # 200
            THEN root_fallback(s, candidates.client, calls)
            ELSE render_index(s, jobs.data, candidates.data,
                              candidates.client, calls)
    /\ UNCHANGED <<settings, route_path, oauth_clients, session, inflight,
                   store>>

list_jobs(s) ==
    /\ inflight[s] = "idle"
    /\ \E o \in Outcomes, f \in Drawn(store[JobsTable]) :
        LET r == fetch_records(supabase_client, JobsTable, JobPosting,
                               store[JobsTable], o, f) IN
        /\ supabase_client' = r.client
        /\ Respond("list_jobs", s, <<>>, r.status,
                   IF r.status = 200 THEN r.data ELSE <<r.error>>, r.calls)
    /\ UNCHANGED <<settings, route_path, oauth_clients, session, inflight,
                   store>>

list_candidates(s) ==
    /\ inflight[s] = "idle"
    /\ \E o \in Outcomes, f \in Drawn(store[CandidatesTable]) :
        LET r == fetch_records(supabase_client, CandidatesTable,
                               CandidateProfile, store[CandidatesTable],
                               o, f) IN
        /\ supabase_client' = r.client
        /\ Respond("list_candidates", s, <<>>, r.status,
                   IF r.status = 200 THEN r.data ELSE <<r.error>>, r.calls)
    /\ UNCHANGED <<settings, route_path, oauth_clients, session, inflight,
                   store>>

\* how the store answers an insert: whether the call succeeds, which id the
\* row gets, whether the row comes back in response.data
InsertAnswers ==
    IF SupabaseMissing(settings)
    THEN {[outcome |-> "ok", assign |-> "keep", returning |-> TRUE]}
    ELSE [outcome : {"ok"}, assign : StoreAssigns, returning : BOOLEAN]
            \cup [outcome : StoreOutcomes \ {"ok"}, assign : {"keep"},
                  returning : {TRUE}]

\* the insert reaches a table that still has room
Room(table, outcome) ==
    (~SupabaseMissing(settings) /\ outcome = "ok")
        => Len(store[table]) < MaxRows

create_job(s) ==
    /\ inflight[s] = "idle"
    /\ \E job \in JobInputs :
        LET user == get_current_user(s) IN
        IF user = Nothing
        THEN /\ Respond("create_job", s, Some(job), 401,
                        <<"Login required to post jobs">>, {})
             /\ UNCHANGED <<supabase_client, store>>
        ELSE \E w \in InsertAnswers :
             LET r == insert_record(supabase_client, JobsTable, job,
                                    JobPosting, store[JobsTable], w.outcome,
                                    w.assign, w.returning, job.id) IN
             /\ Room(JobsTable, w.outcome)
             /\ supabase_client' = r.client
             /\ store' = [store EXCEPT ![JobsTable] = r.rows]
             /\ Respond("create_job", s, Some(job), r.status,
                        IF r.status = 201 THEN r.item ELSE <<r.error>>,
                        r.calls)
    /\ UNCHANGED <<settings, route_path, oauth_clients, session, inflight>>

\* create_candidate whose body reaches insert_record without being validated
create_candidate_Unvalidated(s) ==
    /\ inflight[s] = "idle"
    /\ \E body \in CandidateBodies, w \in InsertAnswers :
        LET profile == Construct(CandidateProfile, body, body.id)
            r == insert_record(supabase_client, CandidatesTable, profile,
                               CandidateProfile, store[CandidatesTable],
                               w.outcome, w.assign, w.returning,
                               profile.id) IN
        /\ Room(CandidatesTable, w.outcome)
        /\ supabase_client' = r.client
        /\ store' = [store EXCEPT ![CandidatesTable] = r.rows]
        /\ Respond("create_candidate", s, Some(body), r.status,
                   IF r.status = 201 THEN r.item ELSE <<r.error>>, r.calls)
    /\ UNCHANGED <<settings, route_path, oauth_clients, session, inflight>>

create_candidate(s) ==
    /\ inflight[s] = "idle"
    /\ \E body \in CandidateBodies :
        IF ~Validates(CandidateProfile, body)
        THEN /\ Respond("create_candidate", s, Some(body), 422,
                        <<"validation">>, {})
             /\ UNCHANGED <<supabase_client, store>>
        ELSE \E w \in InsertAnswers :
             LET profile == Construct(CandidateProfile, body, body.id)
                 r == insert_record(supabase_client, CandidatesTable,
                                    profile, CandidateProfile,
                                    store[CandidatesTable], w.outcome,
                                    w.assign, w.returning, profile.id) IN
             /\ Room(CandidatesTable, w.outcome)
             /\ supabase_client' = r.client
             /\ store' = [store EXCEPT ![CandidatesTable] = r.rows]
             /\ Respond("create_candidate", s, Some(body), r.status,
                        IF r.status = 201 THEN r.item ELSE <<r.error>>,
                        r.calls)
    /\ UNCHANGED <<settings, route_path, oauth_clients, session, inflight>>

\* ensure_consentkeys_client() without the hasattr test: a call that finds the
\* client registered registers a second one
Registered_Again(clients) ==
    IF ClientName \in clients THEN clients \cup {"consentkeys-2"}
    ELSE clients \cup {ClientName}

\* ensure_consentkeys_client() once the credentials are there
Registered(clients) ==
    IF ClientName \notin clients THEN clients \cup {ClientName} ELSE clients

\* GET /login up to the await of authorize_redirect
login(s) ==
    /\ inflight[s] = "idle"
    /\ IF CredentialsMissing(settings)
       THEN /\ Respond("login", s, <<>>, 500, <<"Login error">>, {})
            /\ UNCHANGED <<oauth_clients, inflight>>
       ELSE /\ oauth_clients' = Registered(oauth_clients)
            /\ inflight' = [inflight EXCEPT ![s] = "login"]
            /\ UNCHANGED <<resp, last>>
    /\ UNCHANGED <<settings, route_path, supabase_client, session, store>>

\* authorize_redirect returns or raises
login_redirect(s) ==
    /\ inflight[s] = "login"
    /\ inflight' = [inflight EXCEPT ![s] = "idle"]
    /\ \E ok \in BOOLEAN :
        IF ok
        THEN /\ session' = [session EXCEPT
                               ![s] = SessionSet(@, StateKey, redirect_uri(settings))]
             /\ Respond("login", s, <<>>, 302, <<"provider">>,
                        {<<"authorize_redirect", ClientName, "ok">>})
        ELSE /\ Respond("login", s, <<>>, 500, <<"Login error">>,
                        {<<"authorize_redirect", ClientName, "error">>})
             /\ UNCHANGED session
    /\ UNCHANGED <<settings, route_path, oauth_clients, supabase_client,
                   store>>

\* the session entry holding every claim the provider returned
Identity_AllClaims(user_info) == user_info

\* the session entry of a successful callback, main.py:259-262
Identity(user_info) ==
    [sub |-> Get(user_info, "sub"), email |-> Get(user_info, "email")]

\* GET <redirect_route_path> up to the await of authorize_access_token
auth_callback(s) ==
    /\ inflight[s] = "idle"
    /\ IF CredentialsMissing(settings)
       THEN /\ Respond("auth_callback", s, <<>>, 500, <<"configuration">>,
                    {})
            /\ UNCHANGED <<oauth_clients, inflight>>
       ELSE /\ oauth_clients' = Registered(oauth_clients)
            /\ inflight' = [inflight EXCEPT ![s] = "exchange"]
            /\ UNCHANGED <<resp, last>>
    /\ UNCHANGED <<settings, route_path, supabase_client, session, store>>

\* `not user_info` for token.get("userinfo")
NoUserinfo(token) ==
    \/ "userinfo" \notin DOMAIN token
    \/ DOMAIN token["userinfo"] = {}

\* the callback without its `except OAuthError`: the rejection surfaces as 500
callback_rejected_Uncaught(s) ==
    /\ inflight[s] = "exchange"
    /\ inflight' = [inflight EXCEPT ![s] = "idle"]
    /\ \E consumed \in BOOLEAN :
        session' = [session EXCEPT
                       ![s] = IF consumed THEN SessionDel(@, StateKey) ELSE @]
    /\ Respond("auth_callback", s, <<>>, 500, <<"Internal Server Error">>,
               {<<"authorize_access_token", ClientName, "OAuthError">>})
    /\ UNCHANGED <<settings, route_path, oauth_clients, supabase_client,
                   store>>

\* authorize_access_token raises OAuthError: the provider rejected the exchange
callback_rejected(s) ==
    /\ inflight[s] = "exchange"
    /\ inflight' = [inflight EXCEPT ![s] = "idle"]
    /\ \E consumed \in BOOLEAN :
        session' = [session EXCEPT
                       ![s] = IF consumed THEN SessionDel(@, StateKey) ELSE @]
    /\ Respond("auth_callback", s, <<>>, 401, <<"OAuthError">>,
               {<<"authorize_access_token", ClientName, "OAuthError">>})
    /\ UNCHANGED <<settings, route_path, oauth_clients, supabase_client,
                   store>>

\* authorize_access_token raises something else: the provider was not reached
callback_failed(s) ==
    /\ inflight[s] = "exchange"
    /\ inflight' = [inflight EXCEPT ![s] = "idle"]
    /\ Respond("auth_callback", s, <<>>, 500, <<"Internal Server Error">>,
               {<<"authorize_access_token", ClientName, "error">>})
    /\ UNCHANGED <<settings, route_path, oauth_clients, supabase_client,
                   session, store>>

\* authorize_access_token returns a token; it needs the state of a started login
callback_token(s) ==
    /\ inflight[s] = "exchange"
    /\ StateKey \in DOMAIN session[s]
    /\ \E token \in ProviderTokens :
        IF NoUserinfo(token)
        THEN /\ session' = [session EXCEPT ![s] = SessionDel(@, StateKey)]
             /\ inflight' = [inflight EXCEPT ![s] = "parse"]
             /\ UNCHANGED <<resp, last>>
        ELSE /\ session' = [session EXCEPT
                               ![s] = SessionSet(SessionDel(@, StateKey), "user",
                                                 Identity(token["userinfo"]))]
             /\ inflight' = [inflight EXCEPT ![s] = "idle"]
             /\ Respond("auth_callback", s, <<>>, 302, <<"/">>,
                        {<<"authorize_access_token", ClientName, "ok">>})
    /\ UNCHANGED <<settings, route_path, oauth_clients, supabase_client,
                   store>>

\* a callback that writes the user entry before parse_id_token has answered:
\* a failed parse leaves an identity without claims
callback_id_token_Identified(s) ==
    /\ inflight[s] = "parse"
    /\ inflight' = [inflight EXCEPT ![s] = "idle"]
    /\ \/ \E user_info \in ClaimSets :
            /\ session' = [session EXCEPT
                              ![s] = SessionSet(@, "user", Identity(user_info))]
            /\ Respond("auth_callback", s, <<>>, 302, <<"/">>,
                       {<<"authorize_access_token", ClientName, "ok">>,
                        <<"parse_id_token", ClientName, "ok">>})
       \/ /\ Respond("auth_callback", s, <<>>, 500,
                     <<"Internal Server Error">>,
                     {<<"authorize_access_token", ClientName, "ok">>,
                      <<"parse_id_token", ClientName, "error">>})
          /\ session' = [session EXCEPT
                            ![s] = SessionSet(@, "user", Identity(EmptyClaims))]
    /\ UNCHANGED <<settings, route_path, oauth_clients, supabase_client,
                   store>>

\* parse_id_token returns the claims of the ID token, or raises
callback_id_token(s) ==
    /\ inflight[s] = "parse"
    /\ inflight' = [inflight EXCEPT ![s] = "idle"]
    /\ \/ \E user_info \in ClaimSets :
            /\ session' = [session EXCEPT
                              ![s] = SessionSet(@, "user", Identity(user_info))]
            /\ Respond("auth_callback", s, <<>>, 302, <<"/">>,
                       {<<"authorize_access_token", ClientName, "ok">>,
                        <<"parse_id_token", ClientName, "ok">>})
       \/ /\ Respond("auth_callback", s, <<>>, 500,
                     <<"Internal Server Error">>,
                     {<<"authorize_access_token", ClientName, "ok">>,
                      <<"parse_id_token", ClientName, "error">>})
          /\ UNCHANGED session
    /\ UNCHANGED <<settings, route_path, oauth_clients, supabase_client,
                   store>>

\* logout that removes the user entry only
logout_UserOnly(s) ==
    /\ inflight[s] = "idle"
    /\ session' = [session EXCEPT ![s] = SessionDel(@, "user")]
    /\ Respond("logout", s, <<>>, 302, <<"/">>, {})
    /\ UNCHANGED <<settings, route_path, oauth_clients, supabase_client,
                   inflight, store>>

logout(s) ==
    /\ inflight[s] = "idle"
    /\ session' = [session EXCEPT ![s] = EmptySession]
    /\ Respond("logout", s, <<>>, 302, <<"/">>, {})
    /\ UNCHANGED <<settings, route_path, oauth_clients, supabase_client,
                   inflight, store>>

\* the routes that read or write the session
SessionRoutes(s) ==
    \/ health(s)
    \/ login(s)
    \/ login_redirect(s)
    \/ auth_callback(s)
    \/ callback_rejected(s)
    \/ callback_failed(s)
    \/ callback_token(s)
    \/ callback_id_token(s)
    \/ logout(s)
    \/ create_job(s)

\* the remaining routes, which read or write the store
StoreRoutes(s) ==
    \/ read_root(s)
    \/ list_jobs(s)
    \/ create_candidate(s)
    \/ list_candidates(s)

Next == \E s \in Sessions : SessionRoutes(s) \/ StoreRoutes(s)

Spec == Init /\ [][Next]_vars

----------------------------------------------------------------------------
(* The identity side: one browser on the routes that read or write the     *)
(* session.                                                                *)

Browser == {"s1"}

NextAuth == \E s \in Browser : SessionRoutes(s)

SpecAuth == Init /\ [][NextAuth]_vars

(* The data side: one browser on the routes that read or write the store,  *)
(* which never look at the provider credentials.                           *)

InitData ==
    /\ Init
    /\ ~CredentialsMissing(settings)

NextData == \E s \in Browser : StoreRoutes(s)

SpecData == InitData /\ [][NextData]_vars

(* Two browsers whose requests interleave, against a process that was      *)
(* started without the store credentials.                                  *)

InitSessions ==
    /\ Init
    /\ SupabaseMissing(settings)
    /\ store = [jobs |-> <<>>, candidates |-> <<>>]

NextSessions == \E s \in Sessions : SessionRoutes(s)

SpecSessions == InitSessions /\ [][NextSessions]_vars

(* The write paths: one browser that can log in and post to both tables,   *)
(* which start empty.                                                      *)

WriteRoutes(s) ==
    \/ login(s)
    \/ login_redirect(s)
    \/ auth_callback(s)
    \/ callback_token(s)
    \/ callback_id_token(s)
    \/ create_job(s)
    \/ create_candidate(s)

InitWrites ==
    /\ Init
    /\ ~CredentialsMissing(settings)
    /\ store = [jobs |-> <<>>, candidates |-> <<>>]

NextWrites == \E s \in Browser : WriteRoutes(s)

SpecWrites == InitWrites /\ [][NextWrites]_vars

(* Two browsers on every route, against a process that has the provider    *)
(* credentials and no store settings.                                      *)

InitIdentity ==
    /\ Init
    /\ ~CredentialsMissing(settings)
    /\ settings.supabase_url = None
    /\ settings.supabase_service_role_key = None
    /\ store = [jobs |-> <<>>, candidates |-> <<>>]

SpecIdentity == InitIdentity /\ [][Next]_vars

----------------------------------------------------------------------------
(* Start-up: the callback route is bound to redirect_route_path, whatever  *)
(* the operator put into CONSENTKEYS_REDIRECT_PATH.                        *)

\* longest free-form redirect target, not counting an "http" prefix
MaxLen == 3

Alphabet == {"a", "s", "/", ":", "?", "#", ";"}

FreeForm == UNION {[1..n -> Alphabet] : n \in 0..MaxLen}

\* the parts of an absolute http(s) URL; parameters hang on a path segment
UrlParts ==
    {c \in [scheme : {HTTP, HTTPS},
            netloc : {<<"a">>, <<"a", ":", "8">>},
            path : {<<>>, <<"/">>, <<"/", "c", "b">>,
                    <<"/", "a", "/", "c", "b">>,
                    <<"/", "a", ";", "x", "/", "c">>},
            params : {<<>>, <<"p">>},
            query : {<<>>, <<"q">>},
            fragment : {<<>>, <<"f">>}] :
        c.params # <<>> => c.path # <<>>}

\* the URL with these parts
Build(c) ==
    c.scheme \o <<":", "/", "/">> \o c.netloc \o c.path
        \o (IF c.params # <<>> THEN <<";">> \o c.params ELSE <<>>)
        \o (IF c.query # <<>> THEN <<"?">> \o c.query ELSE <<>>)
        \o (IF c.fragment # <<>> THEN <<"#">> \o c.fragment ELSE <<>>)

AbsoluteUrls == {Build(c) : c \in UrlParts}

RedirectTargets ==
    FreeForm \cup {HTTP \o t : t \in FreeForm} \cup AbsoluteUrls

InitRedirect ==
    /\ settings \in
         [consentkeys_client_id       : {"client-id"},
          consentkeys_client_secret   : {"client-secret"},
          consentkeys_redirect_path   : RedirectTargets,
          app_host                    : {DefaultAppHost},
          supabase_url                : {"https://db"},
          supabase_service_role_key   : {"service-key"}]
    /\ route_path = Nothing
    /\ oauth_clients = {}
    /\ supabase_client = None
    /\ session = [s \in Sessions |-> EmptySession]
    /\ inflight = [s \in Sessions |-> "idle"]
    /\ store = [jobs |-> <<>>, candidates |-> <<>>]
    /\ resp = NoResponse
    /\ last = [s \in Sessions |-> NoRequest]

\* @app.get(settings.redirect_route_path), main.py:247
bind_callback_route ==
    /\ route_path = Nothing
    /\ route_path' = Some(redirect_route_path(settings))
    /\ UNCHANGED <<settings, oauth_clients, supabase_client, session,
                   inflight, store, resp, last>>

NextRedirect == bind_callback_route

SpecRedirect == InitRedirect /\ [][NextRedirect]_vars

----------------------------------------------------------------------------
(* Properties of the identity side.                                        *)

HasUser(sess) == "user" \in DOMAIN sess

\* C1: a POST /api/jobs of a session that holds no user entry answers 401,
\* makes no external call, and leaves the rows of the store and the store
\* client handle as they were, whatever the store settings.
C1_UnauthenticatedPostWritesNothing ==
    [][\A s \in Sessions :
          (create_job(s) /\ ~HasUser(session[s]))
              => /\ resp'.route = "create_job"
                 /\ resp'.status = 401
                 /\ resp'.calls = {}
                 /\ store' = store
                 /\ supabase_client' = supabase_client]_vars

\* an unauthenticated POST was answered while the store was configured
C1_Witness ==
    /\ resp.route = "create_job"
    /\ resp.status = 401
    /\ ~HasUser(session[resp.sid])
    /\ settings.supabase_url # None
    /\ settings.supabase_service_role_key # None

\* C2: while the latest response of a session is the logout's, its session
\* is empty; and a POST /api/jobs that directly follows the logout of its
\* session answers 401.
C2_PostAfterLogoutIs401 ==
    \A s \in Sessions :
        /\ last[s].route = "logout" => DOMAIN session[s] = {}
        /\ (resp.sid = s /\ last[s].route = "create_job"
                /\ last[s].after_logout)
              => resp.status = 401

\* a POST /api/jobs followed the logout of a session that had started a login
C2_Witness ==
    \E s \in Sessions :
        /\ resp.sid = s
        /\ last[s].route = "create_job"
        /\ last[s].after_logout
        /\ resp.status = 401
        /\ ClientName \in oauth_clients

\* the callback of session s completes in this step with a redirect to "/"
CallbackSucceeds(s) ==
    /\ inflight[s] \in {"exchange", "parse"}
    /\ inflight'[s] = "idle"
    /\ resp'.route = "auth_callback"
    /\ resp'.sid = s
    /\ resp'.status = 302

\* C3: a callback that succeeds leaves under the session key `user` a mapping
\* with exactly the keys sub and email, holding those two claims of the
\* provider; and a session that holds a user entry keeps one in every step
\* that is not its logout.
C3_CallbackStoresSubjectAndEmail ==
    [][\A s \in Sessions :
          /\ CallbackSucceeds(s)
                => /\ HasUser(session'[s])
                   /\ DOMAIN session'[s]["user"] = {"sub", "email"}
                   /\ \E c \in ClaimSets :
                        /\ session'[s]["user"]["sub"] = Get(c, "sub")
                        /\ session'[s]["user"]["email"] = Get(c, "email")
          /\ (HasUser(session[s]) /\ ~logout(s))
                => HasUser(session'[s])]_vars

\* the identity came from parse_id_token, from claims that carry a name and
\* no email
C3_Witness ==
    /\ resp.route = "auth_callback"
    /\ resp.status = 302
    /\ <<"parse_id_token", ClientName, "ok">> \in resp.calls
    /\ HasUser(session[resp.sid])
    /\ session[resp.sid]["user"] = [sub |-> "bob", email |-> None]

\* C6: a GET /login while the client id or the client secret is absent
\* answers 500 at once: no external call, no client registered, the session
\* unchanged.
C6_LoginWithoutCredentials ==
    [][\A s \in Sessions :
          (login(s) /\ (\/ settings.consentkeys_client_id = None
                        \/ settings.consentkeys_client_secret = None))
              => /\ resp'.route = "login"
                 /\ resp'.sid = s
                 /\ resp'.status = 500
                 /\ resp'.calls = {}
                 /\ oauth_clients' = oauth_clients
                 /\ inflight'[s] = "idle"
                 /\ session' = session]_vars

\* the login was refused although the client id was there
C6_Witness ==
    /\ resp.route = "login"
    /\ resp.status = 500
    /\ resp.calls = {}
    /\ settings.consentkeys_client_id # None
    /\ settings.consentkeys_client_secret = None
    /\ oauth_clients = {}

\* the exchange of session s ends in this step with the provider's OAuthError
ExchangeRejected(s) ==
    /\ inflight[s] = "exchange"
    /\ inflight'[s] = "idle"
    /\ resp'.sid = s
    /\ <<"authorize_access_token", ClientName, "OAuthError">> \in resp'.calls

\* C7: when the provider rejects the code exchange the callback answers 401
\* and the user entry of the session is as it was before; a session without
\* one still has none.
C7_RejectedExchangeIs401 ==
    [][\A s \in Sessions :
          ExchangeRejected(s)
              => /\ resp'.route = "auth_callback"
                 /\ resp'.status = 401
                 /\ SessionGet(session'[s], "user")
                       = SessionGet(session[s], "user")
                 /\ ~HasUser(session[s]) => ~HasUser(session'[s])]_vars

\* a rejected callback was answered for a session without a user entry
C7_Witness ==
    /\ resp.route = "auth_callback"
    /\ resp.status = 401
    /\ <<"authorize_access_token", ClientName, "OAuthError">> \in resp.calls
    /\ ~HasUser(session[resp.sid])

----------------------------------------------------------------------------
(* Properties of the data side.                                            *)

ModelOf(table) == IF table = JobsTable THEN JobPosting ELSE CandidateProfile

WithoutId(record) == [f \in DOMAIN record \ {"id"} |-> record[f]]

\* the select of the latest request on `table` was made and did not succeed
SelectFailed(table) ==
    \E c \in resp.calls :
        /\ c[1] = "select"
        /\ c[2] = table
        /\ c[3] \in {"error", "unreachable"}

\* the select of the latest request on `table` returned a row that does not
\* fit the schema
SelectMalformed(table) ==
    /\ <<"select", table, "ok">> \in resp.calls
    /\ \E i \in 1..Len(store[table]) :
          ~Validates(ModelOf(table), store[table][i])

\* the latest request was a GET / that found the store unconfigured,
\* unreachable, reporting an error, or holding a malformed row
RootWithoutStore ==
    /\ resp.route = "read_root"
    /\ \/ settings.supabase_url = None
       \/ settings.supabase_service_role_key = None
       \/ \E t \in Tables : SelectFailed(t) \/ SelectMalformed(t)

\* the fixtures of main.py:160-194, ids aside
FixtureJobs ==
    << [employer |-> "Pacific Inclusive Partners", title |-> "Data Analyst",
        region |-> "Lower Mainland",
        description |-> "Advance evidence-based hiring programs",
        incentive_eligible |-> TRUE],
       [employer |-> "Northern Tech Co-op", title |-> "Full Stack Developer",
        region |-> "Cariboo", description |-> "Ship accessible services",
        incentive_eligible |-> FALSE] >>

FixtureCandidates ==
    << [region |-> "Vancouver Island",
        skills |-> <<"React", "TypeScript", "Figma">>,
        experience_years |-> 3,
        desired_roles |-> <<"Frontend Developer", "Product Designer">>,
        portfolio_link |-> "https://example.com/portfolio"],
       [region |-> "Kootenays", skills |-> <<"Python", "FastAPI", "Supabase">>,
        experience_years |-> 5,
        desired_roles |-> <<"Backend Developer", "Data Engineer">>,
        portfolio_link |-> None] >>

\* C4 as stated: a GET / that finds the store failing answers 200 with one
\* demonstration job and one demonstration candidate.
C4_OneJobOneCandidate ==
    RootWithoutStore
        => /\ resp.status = 200
           /\ Len(resp.body.jobs) = 1
           /\ Len(resp.body.candidates) = 1

\* C4, amended: a GET / that finds the store failing answers 200 with the
\* two demonstration jobs and the two demonstration candidates, each with a
\* newly drawn id, and nothing else.
C4_DemoFixturesOnFailure ==
    RootWithoutStore
        => /\ resp.status = 200
           /\ [i \in 1..Len(resp.body.jobs) |-> WithoutId(resp.body.jobs[i])]
                 = FixtureJobs
           /\ [i \in 1..Len(resp.body.candidates) |->
                  WithoutId(resp.body.candidates[i])] = FixtureCandidates
           /\ \A i \in 1..2 :
                 /\ resp.body.jobs[i]["id"] \in Tokens
                 /\ resp.body.candidates[i]["id"] \in Tokens

\* the page was rendered while the jobs select could not reach the store
C4_Witness ==
    /\ RootWithoutStore
    /\ <<"select", JobsTable, "unreachable">> \in resp.calls
    /\ resp.status = 200
    /\ Len(resp.body.jobs) = 2
    /\ Len(resp.body.candidates) = 2

\* the latest request was a GET /api/jobs or GET /api/candidates that found
\* the store unconfigured, unreachable or reporting an error
ListWithoutStore ==
    /\ resp.route \in {"list_jobs", "list_candidates"}
    /\ \/ settings.supabase_url = None
       \/ settings.supabase_service_role_key = None
       \/ \E t \in Tables : SelectFailed(t)

IsDemoRecord(record) ==
    \/ \E i \in 1..2 : WithoutId(record) = FixtureJobs[i]
    \/ \E i \in 1..2 : WithoutId(record) = FixtureCandidates[i]

\* C5: a list request that finds the store failing answers with a 5xx status;
\* and no successful response of a route other than GET / carries a
\* demonstration record.
C5_ListRoutesSurfaceFailure ==
    /\ ListWithoutStore => resp.status \in 500..599
    /\ (resp.route # "read_root" /\ resp.status \in {200, 201})
          => \A i \in 1..Len(resp.body) : ~IsDemoRecord(resp.body[i])

\* a GET /api/candidates was answered while the store reported an error
C5_Witness ==
    /\ ListWithoutStore
    /\ resp.route = "list_candidates"
    /\ <<"select", CandidatesTable, "error">> \in resp.calls
    /\ resp.status = 500

\* the record is the submitted one in every field but the id, and its id is
\* the submitted one unless the store assigned its own
SameButStoreAssigned(record, submitted) ==
    /\ WithoutId(record) = WithoutId(submitted)
    /\ record["id"] \in {submitted["id"], StoreId}

\* C10: when a POST /api/candidates was answered 201 and the next request is
\* a GET /api/candidates whose select succeeds on rows that all fit the
\* schema, the list answers 200 and holds a record equal to the submitted
\* one except for the id the store may have assigned.
C10_InsertThenFetch ==
    [][\A s \in Sessions :
          (/\ resp.route = "create_candidate"
           /\ resp.status = 201
           /\ list_candidates(s)
           /\ <<"select", CandidatesTable, "ok">> \in resp'.calls
           /\ \A i \in 1..Len(store[CandidatesTable]) :
                 Validates(CandidateProfile, store[CandidatesTable][i]))
              => /\ resp'.status = 200
                 /\ \E i \in 1..Len(resp'.body) :
                       SameButStoreAssigned(resp'.body[i],
                                            resp.request[1])]_vars

\* a list that holds two inserted profiles, one under the id the store gave
C10_Witness ==
    /\ resp.route = "list_candidates"
    /\ resp.status = 200
    /\ Len(resp.body) = 2
    /\ \E i, j \in 1..2 :
          /\ resp.body[i]["id"] = StoreId
          /\ resp.body[j]["id"] \in Tokens
          /\ resp.body[i]["portfolio_link"] = "https://me.example"

----------------------------------------------------------------------------
(* Properties of the callback route path.                                  *)

\* a relative path: letters and separators only
RelativePath(target) ==
    \A i \in 1..Len(target) : target[i] \in Letters \cup {"/"}

\* C8: once the callback route is bound, its path begins with "/" for every
\* redirect target that is an absolute http(s) URL or a relative path.
C8_RoutePathBeginsWithSlash ==
    (/\ route_path # Nothing
     /\ \/ settings.consentkeys_redirect_path \in AbsoluteUrls
        \/ RelativePath(settings.consentkeys_redirect_path))
        => StartsWith(route_path[1], SLASH)

\* C9: for a redirect target that is an absolute http(s) URL the callback
\* route is bound to the path of the URL, and to "/auth/callback" when that
\* path is empty.
C9_AbsoluteUrlPathOrDefault ==
    \A c \in UrlParts :
        (route_path # Nothing
            /\ settings.consentkeys_redirect_path = Build(c))
            => route_path[1] = IF c.path = <<>> THEN DefaultCallback
                               ELSE c.path

\* the route was bound for a URL without a path, with a query
C9_Witness ==
    /\ route_path = Some(DefaultCallback)
    /\ \E c \in UrlParts :
          /\ c.path = <<>>
          /\ c.query # <<>>
          /\ settings.consentkeys_redirect_path = Build(c)

----------------------------------------------------------------------------
(* Properties of the write paths and of the module state.                  *)

\* C11: a POST /api/candidates whose body has experience_years below 0 is
\* answered 422 without any external call: no insert is issued, the rows of
\* the store and the store client handle stay as they were.
C11_NegativeExperienceRejected ==
    [][\A s \in Sessions :
          (/\ resp'.route = "create_candidate"
           /\ create_candidate(s)
           /\ resp'.request[1]["experience_years"] < 0)
              => /\ resp'.route = "create_candidate"
                 /\ resp'.status = 422
                 /\ resp'.calls = {}
                 /\ store' = store
                 /\ supabase_client' = supabase_client]_vars

\* a negative profile was refused by a process whose store is configured and
\* whose client handle does not exist yet
C11_Witness ==
    /\ resp.route = "create_candidate"
    /\ resp.request[1]["experience_years"] = -1
    /\ resp.status = 422
    /\ ~SupabaseMissing(settings)
    /\ supabase_client = None

\* the insert of the request answered by r could not be made or did not
\* succeed: the store is unconfigured, unreachable, or reported an error
InsertFailed(r) ==
    \/ SupabaseMissing(settings)
    \/ \E c \in r.calls :
          /\ c[1] = "insert"
          /\ c[3] \in {"error", "unreachable"}

\* the bodies of the error responses of the data layer
StoreErrors == {<<"configuration">>, <<"supabase">>, <<"unreachable">>}

\* the step answers a request to `route`: a handler that answers in the step
\* it starts in leaves no request in flight
Answers(route) ==
    /\ inflight' = inflight
    /\ resp'.route = route

\* C12: a POST /api/jobs of a session that holds a user entry, and a POST
\* /api/candidates with a well-formed profile, whose insert finds the store
\* unconfigured, unreachable or reporting an error, answers with a 5xx
\* status and an error body (never 201, never a record), and adds no row.
C12_WriteFailuresSurface ==
    [][(/\ InsertFailed(resp')
        /\ \/ Answers("create_job") /\ HasUser(session[resp'.sid])
           \/ /\ Answers("create_candidate")
              /\ resp'.request[1]["experience_years"] >= 0)
          => /\ resp'.status \in 500..599
             /\ resp'.body \in StoreErrors
             /\ store' = store]_vars

\* an authenticated POST /api/jobs was answered 500 because the store
\* reported an error on the insert
C12_Witness ==
    /\ resp.route = "create_job"
    /\ HasUser(session[resp.sid])
    /\ <<"insert", JobsTable, "error">> \in resp.calls
    /\ resp.status = 500
    /\ resp.body = <<"supabase">>

\* session s starts a GET /login or a callback while the credentials are set
EnsureWithCredentials(s) ==
    /\ ~CredentialsMissing(settings)
    /\ login(s) \/ auth_callback(s)

\* C13: however the /login and callback requests of the sessions interleave,
\* the registry never holds more than the one provider client; once it is
\* registered no later step changes the registry; and a /login or callback
\* that starts with the credentials set goes on to its provider call with
\* the client registered, without answering an error at that point.
C13_RegisteredOnce ==
    [][/\ oauth_clients' \subseteq {ClientName}
       /\ ClientName \in oauth_clients => oauth_clients' = oauth_clients
       /\ \A s \in Sessions :
             EnsureWithCredentials(s)
                => /\ ClientName \in oauth_clients'
                   /\ inflight'[s] \in {"login", "exchange"}
                   /\ resp' = resp]_vars

\* two requests that both called ensure_consentkeys_client are in flight, one
\* a login and one a callback
C13_Witness ==
    /\ inflight["s1"] = "login"
    /\ inflight["s2"] = "exchange"
    /\ oauth_clients = {ClientName}

\* the request answered by r called the store
StoreCalled(r) == \E c \in r.calls : c[1] \in {"select", "insert"}

\* the request answered by r constructed a store client
ClientCreated(r) == <<"create_client", "supabase", "ok">> \in r.calls

\* C14: a data request constructs the store client only when the module
\* holds none; every request that calls the store leaves the one handle in
\* the module; and a handle that is set is the same after every step, never
\* absent again.
C14_OneStoreClient ==
    [][/\ supabase_client # None => supabase_client' = supabase_client
       /\ ClientCreated(resp') => supabase_client = None
       /\ StoreCalled(resp')
             => /\ supabase_client' = ClientHandle
                /\ ClientCreated(resp') <=> supabase_client = None]_vars

\* a request called the store with the handle an earlier request had created
C14_Witness ==
    /\ StoreCalled(resp)
    /\ ~ClientCreated(resp)
    /\ resp.route = "list_jobs"
    /\ supabase_client = ClientHandle

\* the table a create route writes
TableOf(route) ==
    IF route = "create_job" THEN JobsTable ELSE CandidatesTable

\* the latest request was a POST whose insert succeeded and found
\* response.data holding a row (returning) or nothing
Inserted(returning) ==
    /\ resp.route \in {"create_job", "create_candidate"}
    /\ resp.status = 201
    /\ <<"insert", TableOf(resp.route), "ok">> \in resp.calls
    /\ DataCall(TableOf(resp.route), returning) \in resp.calls

\* the row the latest insert left in the table
LastRow(table) == store[table][Len(store[table])]

\* C15: a POST whose insert succeeded without a returned row answers with
\* the submitted record, field by field, its id included; one whose insert
\* returned the row answers with that row read into the schema, so with the
\* id the store gave it and without the columns the schema does not have.
C15_InsertResult ==
    /\ Inserted(FALSE) => resp.body[1] = resp.request[1]
    /\ Inserted(TRUE)
          => LET row == LastRow(TableOf(resp.route)) IN
             /\ DOMAIN resp.body[1] = Fields(ModelOf(TableOf(resp.route)))
             /\ \A f \in DOMAIN resp.body[1] : resp.body[1][f] = row[f]

\* the store kept the row under its own id and returned nothing: the answer
\* carries the id the client sent
C15_Witness ==
    /\ Inserted(FALSE)
    /\ resp.route = "create_job"
    /\ LastRow(JobsTable)["id"] = StoreId
    /\ resp.body[1]["id"] = resp.request[1]["id"]
    /\ resp.body[1]["id"] \in Tokens

\* the route that lists a table
ListRoute(table) ==
    IF table = JobsTable THEN "list_jobs" ELSE "list_candidates"

\* the row lacks a required field of the schema, or is a candidate row with
\* experience_years below 0
Malformed(table, row) ==
    \/ \E f \in Required(ModelOf(table)) : f \notin DOMAIN row
    \/ /\ table = CandidatesTable
       /\ "experience_years" \in DOMAIN row
       /\ row["experience_years"] < 0

\* C16: a list request whose select succeeded on a table holding a malformed
\* row answers with a 5xx status and the validation failure as its body:
\* none of the rows is returned, the well-formed ones included.
C16_FetchAllOrNothing ==
    \A t \in Tables :
        (/\ resp.route = ListRoute(t)
         /\ <<"select", t, "ok">> \in resp.calls
         /\ \E i \in 1..Len(store[t]) : Malformed(t, store[t][i]))
            => /\ resp.status \in 500..599
               /\ resp.body = <<"validation">>

\* GET /api/jobs failed on a table whose first row is well-formed and whose
\* second row lacks the title
C16_Witness ==
    /\ resp.route = "list_jobs"
    /\ <<"select", JobsTable, "ok">> \in resp.calls
    /\ Len(store[JobsTable]) = 2
    /\ ~Malformed(JobsTable, store[JobsTable][1])
    /\ "title" \notin DOMAIN store[JobsTable][2]
    /\ resp.status = 500

\* the records of a list, ids aside
Shown(list) == [i \in 1..Len(list) |-> WithoutId(list[i])]

\* the rows of a table read into its schema, ids aside
Parsed(table) ==
    [i \in 1..Len(store[table]) |->
        WithoutId(Construct(ModelOf(table), store[table][i], None))]

\* the select of the latest request on `table` succeeded on well-formed rows
Fetched(table) ==
    /\ <<"select", table, "ok">> \in resp.calls
    /\ \A i \in 1..Len(store[table]) : ~Malformed(table, store[table][i])

\* C17: the page of a GET / shows either the rows of both tables, when both
\* fetches succeeded, or the demonstration jobs together with the
\* demonstration candidates; when the jobs were fetched and the candidates
\* fetch failed, the jobs shown are the demonstration jobs.
C17_LiveOrDemoNeverMixed ==
    resp.route = "read_root"
        => /\ \/ /\ Fetched(JobsTable) /\ Fetched(CandidatesTable)
                 /\ Shown(resp.body.jobs) = Parsed(JobsTable)
                 /\ Shown(resp.body.candidates) = Parsed(CandidatesTable)
              \/ /\ ~(Fetched(JobsTable) /\ Fetched(CandidatesTable))
                 /\ Shown(resp.body.jobs) = FixtureJobs
                 /\ Shown(resp.body.candidates) = FixtureCandidates
           /\ (Fetched(JobsTable) /\ ~Fetched(CandidatesTable))
                 => Shown(resp.body.jobs) = FixtureJobs

\* the one job of the store was fetched, the candidates select reported an
\* error, and the page shows the two demonstration jobs
C17_Witness ==
    /\ resp.route = "read_root"
    /\ Fetched(JobsTable)
    /\ Len(store[JobsTable]) = 1
    /\ <<"select", CandidatesTable, "error">> \in resp.calls
    /\ Len(resp.body.jobs) = 2
    /\ Shown(resp.body.candidates) = FixtureCandidates

----------------------------------------------------------------------------
(* The redirect URI against the callback route.                            *)

\* C18: once the callback route is bound, the path component of the
\* redirect URI sent to the provider is the path the route is bound to, for
\* every redirect target.
C18_RedirectUriPathIsRoutePath ==
    route_path # Nothing
        => urlparse(redirect_uri(settings)).path = route_path[1]

----------------------------------------------------------------------------
(* The session identity across routes and sessions.                        *)

\* the user entry of a session, absent or present
UserOf(sess) == SessionGet(sess, "user")

\* C19: a session none of whose requests has been answered holds no user
\* entry; a session gains one only in the step in which its own callback
\* succeeds; the entry of a session changes only in such a step or in its
\* own logout, which leaves the session without one; and the login,
\* callback and logout steps of one session leave the user entry of every
\* other session as it was.
C19_IdentityOnlyFromOwnCallback ==
    [][\A s \in Sessions :
          /\ last[s].route = "none" => ~HasUser(session[s])
          /\ (~HasUser(session[s]) /\ HasUser(session'[s]))
                => CallbackSucceeds(s)
          /\ UserOf(session'[s]) # UserOf(session[s])
                => CallbackSucceeds(s) \/ logout(s)
          /\ logout(s) => ~HasUser(session'[s])
          /\ (inflight'[s] # inflight[s] \/ logout(s))
                => \A t \in Sessions \ {s} :
                      UserOf(session'[t]) = UserOf(session[t])]_vars

\* one session has just logged out while the other one, which logged in
\* through the ID token, still holds its identity
C19_Witness ==
    /\ resp.route = "logout"
    /\ resp.sid = "s2"
    /\ ~HasUser(session["s2"])
    /\ HasUser(session["s1"])
    /\ session["s1"]["user"] = [sub |-> "bob", email |-> None]
    /\ last["s1"].route \in {"read_root", "create_job"}

====
